---- MODULE Spec2Model ----
(***************************************************************************)
(* Ballot-integrity core of ALX Polly: the in-memory rate limiter, the two *)
(* vote entry points (server action submitVote, client function castVote), *)
(* the owner-guarded deletePoll / updatePoll, and the tally arithmetic of  *)
(* getPollResults / getPercentage.                                         *)
(*                                                                         *)
(* Every await on the database is one atomic step of the request that      *)
(* issued it; requests interleave between those steps.  Time is the wall   *)
(* clock in milliseconds, advanced by Tick.                                *)
(***************************************************************************)
EXTENDS Integers, Sequences, FiniteSets, Bags

VARIABLES
    polls,          \* table polls: poll id -> row, or NoPoll; expires_at is a
                    \* set, empty for null and else holding the timestamp
    votes,          \* table votes: the bag of its rows
    rateLimitMap,   \* rate-limit.ts rateLimitMap: key -> bucket, or NoBucket
    now,            \* Date.now()
    procs,          \* the requests in flight: position and locals
    lastResult,     \* the request that returned last, and its error message
    rlLog,          \* the direct rateLimit calls made so far, with their results
    tallyIn,        \* input of the tally computation of getPollResults
    tallyOut,       \* its result, once computed: <<>> or <<result>>
    pctIn,          \* input of getPercentage
    pctOut,         \* its result, once computed: <<>> or <<percentage>>
    routed          \* the page requests the middleware has answered

vars == <<polls, votes, rateLimitMap, now, procs, lastResult, rlLog,
          tallyIn, tallyOut, pctIn, pctOut, routed>>

(***************************************************************************)
(* Bounds of the model.                                                    *)
(***************************************************************************)
MaxProcs == 2          \* vote requests that can be in flight together
MaxVotes == 6          \* rows of the votes table
TickMs == 30000        \* the clock advances in steps of this many ms
MaxTicks == 3          \* how many times the clock advances
MaxRlCalls == 6        \* direct rateLimit calls in the limiter's own specification
MaxRequestsBound == 5  \* largest maxRequests tried there
MaxTallyVotes == 4     \* vote rows handed to the tally
MaxTallyOptions == 3   \* options handed to the tally
MaxTotal == 40         \* largest totalVotes handed to getPercentage
MaxRouted == 2         \* page requests through the middleware

(***************************************************************************)
(* Program constants.                                                      *)
(***************************************************************************)
VoteMaxRequests == 5       \* rateLimit(rateLimitKey, 5, 60000)
VoteWindowMs == 60000
MinOptionIndex == 0        \* voteSchema.optionIndex .min(0)
MaxOptionIndex == 9        \* voteSchema.optionIndex .max(9)
MinOptions == 2            \* createPollSchema.options .min(2)
MaxOptions == 10           \* createPollSchema.options .max(10)

NULL == "null"                                   \* no user, no error
NoExpiry == {}                                   \* expires_at is null
NoPoll == [user_id |-> NULL, question |-> "", options |-> <<>>,
           expires_at |-> NoExpiry]              \* no row with this id
NoBucket == [count |-> 0, resetTime |-> 0]       \* no entry under this key

(***************************************************************************)
(* IEEE 754 binary64 arithmetic, as far as the percentage needs it.        *)
(* A positive double is [e, a, b, c]: its 53-bit significand is            *)
(*     2^52 + a * 2^34 + b * 2^16 + c     (a, b < 2^18, c < 2^16)          *)
(* and e is the exponent of its leading bit, so its value is the           *)
(* significand times 2^(e - 52).  The limbs keep every intermediate value  *)
(* below 2^31.                                                             *)
(***************************************************************************)
Limb == 2^18
LowLimb == 2^16

\* The significand plus one unit in the last place.
IncrementSignificand(d) ==
    IF d.c + 1 < LowLimb THEN [d EXCEPT !.c = @ + 1]
    ELSE IF d.b + 1 < Limb THEN [d EXCEPT !.c = 0, !.b = @ + 1]
    ELSE IF d.a + 1 < Limb THEN [d EXCEPT !.c = 0, !.b = 0, !.a = @ + 1]
    ELSE [e |-> d.e + 1, a |-> 0, b |-> 0, c |-> 0]

\* Round to nearest, ties to even: guard is the first dropped bit, sticky
\* says that a later dropped bit is set.
RoundNearestEven(d, guard, sticky) ==
    IF guard = 1 /\ (sticky \/ (d.c % 2) = 1) THEN IncrementSignificand(d) ELSE d

\* r * 2^(-e) scaled into [t, 2t): the exponent of r / t.
RECURSIVE Normalise(_, _, _)
Normalise(r, t, e) ==
    IF r >= t THEN [r |-> r, e |-> e] ELSE Normalise(2 * r, t, e - 1)

\* The double nearest to c / t, for 0 < c <= t < 2^13: long division, 18, 18
\* and 17 quotient bits at a time; the last of them is the guard bit.
DoubleDiv(c, t) ==
    LET nrm == Normalise(c, t, 0)
        r0 == nrm.r - t
        d1 == (r0 * Limb) \div t
        r1 == (r0 * Limb) % t
        d2 == (r1 * Limb) \div t
        r2 == (r1 * Limb) % t
        d3 == (r2 * 2 * LowLimb) \div t
        r3 == (r2 * 2 * LowLimb) % t
    IN RoundNearestEven([e |-> nrm.e, a |-> d1, b |-> d2, c |-> d3 \div 2],
                        d3 % 2, r3 # 0)

\* The number of bits of n >= 1, less one.
RECURSIVE Log2(_)
Log2(n) == IF n < 2 THEN 0 ELSE 1 + Log2(n \div 2)

\* The double nearest to d * k, for a natural 2 <= k < 2^13: the exact
\* product limb by limb, then the bits beyond the 53rd rounded away.
DoubleTimes(d, k) ==
    LET x3 == d.c * k
        x2 == (d.b * k) + (x3 \div LowLimb)
        x1 == (d.a * k) + (x2 \div Limb)
        top == k + (x1 \div Limb)
        pa == x1 % Limb
        pb == x2 % Limb
        pc == x3 % LowLimb
        s == Log2(top)
        drop == 2^s
    IN RoundNearestEven(
           [e |-> d.e + s,
            a |-> (pa \div drop) + ((top % drop) * (Limb \div drop)),
            b |-> (pb \div drop) + ((pa % drop) * (Limb \div drop)),
            c |-> (pc \div drop) + ((pb % drop) * (LowLimb \div drop))],
           (pc \div (drop \div 2)) % 2,
           (pc % (drop \div 2)) # 0)

\* Math.round of a positive double below 2^18: the nearest integer, a tie
\* going up, which is the integer part plus the first fraction bit.
MathRound(d) ==
    IF d.e < -1 THEN 0
    ELSE IF d.e = -1 THEN 1
    ELSE (2^(d.e)) + (d.a \div (2^(18 - d.e))) + ((d.a \div (2^(17 - d.e))) % 2)

(***************************************************************************)
(* getPollResults / getPercentage: the tally.                              *)
(***************************************************************************)
PercentageRoundedUp(count, total) ==
    IF total > 0 THEN ((100 * count) + total - 1) \div total ELSE 0

\* Math.round((votes / totalVotes) * 100), or 0 without votes.
Percentage(count, total) ==
    IF total > 0
    THEN IF count = 0 THEN 0 ELSE MathRound(DoubleTimes(DoubleDiv(count, total), 100))
    ELSE 0

InRangeSkipsFirst(optionIndex, n) == optionIndex > 0 /\ optionIndex < n

\* The test of the forEach body: the vote counts for one of the n options.
InRange(optionIndex, n) == optionIndex >= 0 /\ optionIndex < n

\* voteCounts after the forEach over the first k vote rows: slot i + 1 holds
\* the count of option index i.
RECURSIVE VoteCounts(_, _, _)
VoteCounts(n, rows, k) ==
    IF k = 0 THEN [i \in 1..n |-> 0]
    ELSE LET before == VoteCounts(n, rows, k - 1)
         IN IF InRange(rows[k], n)
            THEN [before EXCEPT ![rows[k] + 1] = @ + 1]
            ELSE before

\* voteCounts.reduce((sum, count) => sum + count, 0)
RECURSIVE SumCounts(_, _)
SumCounts(counts, k) == IF k = 0 THEN 0 ELSE SumCounts(counts, k - 1) + counts[k]

\* The tally part of getPollResults: options with votes and percentage, and
\* totalVotes.
PollResults(options, rows) ==
    LET n == Len(options)
        voteCounts == VoteCounts(n, rows, Len(rows))
        totalVotes == SumCounts(voteCounts, n)
    IN [options |-> [i \in 1..n |->
                        [text |-> options[i],
                         votes |-> voteCounts[i],
                         percentage |-> Percentage(voteCounts[i], totalVotes)]],
        totalVotes |-> totalVotes]

(***************************************************************************)
(* rate-limit.ts: the fixed-window limiter.                                *)
(***************************************************************************)
\* Is the bucket missing, or its window over?  (!current || now > current.resetTime)
StartsFresh(current, t) == current = NoBucket \/ t > current.resetTime

LimitExceeded(current, maxRequests) == current.count > maxRequests

\* Is the window's budget used up?  (current.count >= maxRequests)
LimitReached(current, maxRequests) == current.count >= maxRequests

RateLimitExtendingWindow(m, identifier, maxRequests, windowMs, t) ==
    [map |-> [m EXCEPT ![identifier] =
                 [count |-> IF StartsFresh(m[identifier], t) THEN 1
                            ELSE m[identifier].count + 1,
                  resetTime |-> t + windowMs]],
     success |-> StartsFresh(m[identifier], t) \/ ~LimitReached(m[identifier], maxRequests),
     remaining |-> 0,
     resetTime |-> t + windowMs]

RateLimitClearingOthers(m, identifier, maxRequests, windowMs, t) ==
    IF StartsFresh(m[identifier], t)
    THEN [map |-> [k \in DOMAIN m |->
                      IF k = identifier
                      THEN [count |-> 1, resetTime |-> t + windowMs]
                      ELSE NoBucket],
          success |-> TRUE,
          remaining |-> maxRequests - 1,
          resetTime |-> t + windowMs]
    ELSE IF LimitReached(m[identifier], maxRequests)
    THEN [map |-> m,
          success |-> FALSE,
          remaining |-> 0,
          resetTime |-> m[identifier].resetTime]
    ELSE [map |-> [m EXCEPT ![identifier] =
                      [count |-> m[identifier].count + 1,
                       resetTime |-> m[identifier].resetTime]],
          success |-> TRUE,
          remaining |-> maxRequests - (m[identifier].count + 1),
          resetTime |-> m[identifier].resetTime]

RateLimitLosingIncrements(m, identifier, maxRequests, windowMs, t) ==
    IF StartsFresh(m[identifier], t)
    THEN [map |-> [m EXCEPT ![identifier] = [count |-> 1, resetTime |-> t + windowMs]],
          success |-> TRUE,
          remaining |-> maxRequests - 1,
          resetTime |-> t + windowMs]
    ELSE [map |-> m,
          success |-> ~LimitReached(m[identifier], maxRequests),
          remaining |-> 0,
          resetTime |-> m[identifier].resetTime]

\* rateLimit(identifier, maxRequests, windowMs) at time t on the map m: the
\* map afterwards and the value returned.
RateLimit(m, identifier, maxRequests, windowMs, t) ==
    LET current == m[identifier]
    IN IF StartsFresh(current, t)
       THEN [map |-> [m EXCEPT ![identifier] =
                          [count |-> 1, resetTime |-> t + windowMs]],
             success |-> TRUE,
             remaining |-> maxRequests - 1,
             resetTime |-> t + windowMs]
       ELSE IF LimitReached(current, maxRequests)
       THEN [map |-> m,
             success |-> FALSE,
             remaining |-> 0,
             resetTime |-> current.resetTime]
       ELSE [map |-> [m EXCEPT ![identifier] =
                          [count |-> current.count + 1,
                           resetTime |-> current.resetTime]],
             success |-> TRUE,
             remaining |-> maxRequests - (current.count + 1),
             resetTime |-> current.resetTime]

(***************************************************************************)
(* The inputs the requests are drawn from.                                 *)
(***************************************************************************)
Users == {"u1", "u2"}                  \* authenticated identities
Voters == Users \cup {NULL}            \* NULL: no session, an anonymous caller
PollIds == {"p1", "p2"}                \* well-formed poll ids (UUIDs)
BadId == "not-a-uuid"                  \* a poll id that is no UUID
OptionLists == {<<"A", "B">>, <<"A", "B", "C">>}
OptionListInputs == OptionLists \cup {<<"A">>}
Procs == 1..MaxProcs

\* The messages the entry points return; NULL is { error: null }, success.
ZodError == "zod: invalid input"
DbError == "db: error message of the store"
TooManyVotes == "Too many votes. Please wait before voting again."
AlreadyVotedServer == "You have already voted on this poll."
AlreadyVotedClient == "You have already voted on this poll"
PollNotFoundServer == "Poll not found."
PollNotFoundClient == "Poll not found"
PollExpiredClient == "This poll has expired"
InvalidOptionServer == "Invalid option selected."
InvalidOptionClient == "Invalid option selected"
InsertFailedClient == "Failed to submit vote"
LoginToDelete == "You must be logged in to delete a poll."
LoginToUpdate == "You must be logged in to update a poll."

\* The error kinds of the design, as sets of messages.
DuplicateVote == {AlreadyVotedServer, AlreadyVotedClient}
RateLimited == {TooManyVotes}
NotFound == {PollNotFoundServer, PollNotFoundClient}
Expired == {PollExpiredClient}
InvalidOption == {InvalidOptionServer, InvalidOptionClient}
ValidationError == {ZodError}

(***************************************************************************)
(* The store.                                                              *)
(***************************************************************************)
VoteRowOfFirstUser(p, u, i) == [poll_id |-> p, user_id |-> "u1", option_index |-> i]

\* A row of votes, without its id and created_at.
VoteRow(p, u, i) == [poll_id |-> p, user_id |-> u, option_index |-> i]

\* The rows of votes with this poll_id and user_id.
MatchingVotes(vs, p, u) == {r \in DOMAIN vs : r.poll_id = p /\ r.user_id = u}

\* How many rows of votes have this poll_id and user_id.
VoteCount(vs, p, u) ==
    LET rows == MatchingVotes(vs, p, u)
        sub == [r \in rows |-> vs[r]]
    IN BagCardinality(sub)

ExistingVoteNeverFound(vs, p, u) == VoteCount(vs, p, u) < 0

\* select("id").eq("poll_id", p).eq("user_id", u).single(): data is the row
\* when exactly one row matches, and null otherwise.
ExistingVote(vs, p, u) == VoteCount(vs, p, u) = 1

InsertAlwaysAllowed(ps, p) == p \in DOMAIN ps

\* insert into votes: the foreign key poll_id -> polls(id) must hold.
InsertAllowed(ps, p) == ps[p] # NoPoll

DeleteMatchesAnyOwner(ps, id, caller) == {q \in PollIds : q = id /\ ps[q] # NoPoll}

\* delete from polls where id = ... and user_id = ...: the ids it removes.
DeleteMatches(ps, id, caller) ==
    {q \in PollIds : q = id /\ ps[q] # NoPoll /\ ps[q].user_id = caller}

\* update polls ... where id = ... and user_id = ...: the ids it changes.
UpdateMatches(ps, id, caller) ==
    {q \in PollIds : q = id /\ ps[q] # NoPoll /\ ps[q].user_id = caller}

\* ON DELETE CASCADE: votes without the rows of the removed polls.
CascadeVotes(vs, removed) ==
    [r \in {x \in DOMAIN vs : x.poll_id \notin removed} |-> vs[r]]

(***************************************************************************)
(* Validation and the checks of a vote.                                    *)
(***************************************************************************)
IsUuid(id) == id \in PollIds

\* voteSchema.parse
ValidVoteInput(p, i) == IsUuid(p) /\ i >= MinOptionIndex /\ i <= MaxOptionIndex

\* updatePollSchema.parse, the question taken as well-formed
ValidUpdateInput(p, options) ==
    /\ IsUuid(p)
    /\ Len(options) >= MinOptions
    /\ Len(options) <= MaxOptions
    /\ \A i, j \in 1..Len(options) : options[i] = options[j] => i = j

\* rateLimitKey of submitVote
RateLimitKey(u, p) == IF u # NULL THEN <<"vote", u>> ELSE <<"vote:anonymous", p>>
RateKeys == {RateLimitKey(u, p) : u \in Voters, p \in PollIds}

\* castVote: poll.expires_at set and now > expirationDate
PollExpired(poll, t) == \E expirationDate \in poll.expires_at : t > expirationDate

\* submitVote: validatedData.optionIndex >= poll.options.length
OutOfBoundsServer(poll, i) == i >= Len(poll.options)

\* castVote: optionIndex < 0 || optionIndex >= poll.options.length
OutOfBoundsClient(poll, i) == i < 0 \/ i >= Len(poll.options)

(***************************************************************************)
(* Requests.                                                               *)
(***************************************************************************)
Idle == [pc |-> "idle", entry |-> "none", user |-> NULL, pollId |-> "none",
         optionIndex |-> 0]

\* A request waiting for the store at position pc.
Waiting(entry, pc, u, p, i) ==
    [pc |-> pc, entry |-> entry, user |-> u, pollId |-> p, optionIndex |-> i]

\* A request that has returned: what was called, by whom, with which poll id
\* and option index, and the error of its result (NULL for { error: null }).
Result(entry, u, p, i, error) ==
    [entry |-> entry, user |-> u, pollId |-> p, optionIndex |-> i, error |-> error]
NoResult == Result("none", NULL, "none", 0, NULL)

\* The request of pr returns before its first wait on the store.
ReturnsAtOnce(pr, entry, u, p, i, error) ==
    /\ procs' = [procs EXCEPT ![pr] = Idle]
    /\ lastResult' = Result(entry, u, p, i, error)

\* The waiting request of pr returns.
Returns(pr, error) ==
    /\ procs' = [procs EXCEPT ![pr] = Idle]
    /\ lastResult' = Result(procs[pr].entry, procs[pr].user, procs[pr].pollId,
                            procs[pr].optionIndex, error)

\* The request of pr goes on to wait at pc.
MovesTo(pr, pc) ==
    /\ procs' = [procs EXCEPT ![pr].pc = pc]
    /\ UNCHANGED lastResult

pure == <<rlLog, tallyIn, tallyOut, pctIn, pctOut, routed>>

(***************************************************************************)
(* submitVote (server action).                                             *)
(***************************************************************************)
SubmitVoteStartLimitingFirst(pr, u, p, i) ==
    /\ procs[pr] = Idle
    /\ UNCHANGED <<polls, votes, now, pure>>
    /\ LET rl == RateLimit(rateLimitMap, RateLimitKey(u, p),
                           VoteMaxRequests, VoteWindowMs, now)
       IN /\ rateLimitMap' = rl.map
          /\ IF ~rl.success
             THEN ReturnsAtOnce(pr, "submitVote", u, p, i, TooManyVotes)
             ELSE IF ~ValidVoteInput(p, i)
             THEN ReturnsAtOnce(pr, "submitVote", u, p, i, ZodError)
             ELSE /\ procs' = [procs EXCEPT ![pr] =
                         Waiting("submitVote",
                                 IF u # NULL THEN "checkExisting" ELSE "fetchPoll",
                                 u, p, i)]
                  /\ UNCHANGED lastResult

SubmitVoteStartUnlimited(pr, u, p, i) ==
    /\ procs[pr] = Idle
    /\ UNCHANGED <<polls, votes, rateLimitMap, now, pure>>
    /\ IF ~ValidVoteInput(p, i)
       THEN ReturnsAtOnce(pr, "submitVote", u, p, i, ZodError)
       ELSE /\ procs' = [procs EXCEPT ![pr] =
                   Waiting("submitVote",
                           IF u # NULL THEN "checkExisting" ELSE "fetchPoll",
                           u, p, i)]
            /\ UNCHANGED lastResult

\* voteSchema.parse, auth.getUser, rateLimit; then the existing-vote select
\* is issued (authenticated) or the poll select (anonymous).
SubmitVoteStart(pr, u, p, i) ==
    /\ procs[pr] = Idle
    /\ UNCHANGED <<polls, votes, now, pure>>
    /\ IF ~ValidVoteInput(p, i)
       THEN /\ ReturnsAtOnce(pr, "submitVote", u, p, i, ZodError)
            /\ UNCHANGED rateLimitMap
       ELSE LET rl == RateLimit(rateLimitMap, RateLimitKey(u, p),
                                VoteMaxRequests, VoteWindowMs, now)
            IN /\ rateLimitMap' = rl.map
               /\ IF ~rl.success
                  THEN ReturnsAtOnce(pr, "submitVote", u, p, i, TooManyVotes)
                  ELSE /\ procs' = [procs EXCEPT ![pr] =
                              Waiting("submitVote",
                                      IF u # NULL THEN "checkExisting" ELSE "fetchPoll",
                                      u, p, i)]
                       /\ UNCHANGED lastResult

\* The existing-vote select returns.
SubmitVoteCheckExisting(pr) ==
    /\ procs[pr].entry = "submitVote"
    /\ procs[pr].pc = "checkExisting"
    /\ UNCHANGED <<polls, votes, rateLimitMap, now, pure>>
    /\ IF ExistingVote(votes, procs[pr].pollId, procs[pr].user)
       THEN Returns(pr, AlreadyVotedServer)
       ELSE MovesTo(pr, "fetchPoll")

\* The poll select returns: existence and option bounds.
SubmitVoteFetchPoll(pr) ==
    /\ procs[pr].entry = "submitVote"
    /\ procs[pr].pc = "fetchPoll"
    /\ UNCHANGED <<polls, votes, rateLimitMap, now, pure>>
    /\ LET poll == polls[procs[pr].pollId]
       IN IF poll = NoPoll THEN Returns(pr, PollNotFoundServer)
          ELSE IF OutOfBoundsServer(poll, procs[pr].optionIndex)
          THEN Returns(pr, InvalidOptionServer)
          ELSE MovesTo(pr, "insert")

\* The insert returns.
SubmitVoteInsert(pr) ==
    /\ procs[pr].entry = "submitVote"
    /\ procs[pr].pc = "insert"
    /\ UNCHANGED <<polls, rateLimitMap, now, pure>>
    /\ IF InsertAllowed(polls, procs[pr].pollId)
       THEN /\ BagCardinality(votes) < MaxVotes
            /\ votes' = votes (+) SetToBag({VoteRow(procs[pr].pollId, procs[pr].user,
                                                    procs[pr].optionIndex)})
            /\ Returns(pr, NULL)
       ELSE /\ UNCHANGED votes
            /\ Returns(pr, DbError)

(***************************************************************************)
(* castVote (client function).                                             *)
(***************************************************************************)
\* voteSchema.parse; the poll select returns: existence, expiry, option
\* bounds; auth.getUser; then the existing-vote select is issued
\* (authenticated) or the insert (anonymous).
CastVoteStart(pr, u, p, i) ==
    /\ procs[pr] = Idle
    /\ UNCHANGED <<polls, votes, rateLimitMap, now, pure>>
    /\ IF ~ValidVoteInput(p, i)
       THEN ReturnsAtOnce(pr, "castVote", u, p, i, ZodError)
       ELSE IF polls[p] = NoPoll
       THEN ReturnsAtOnce(pr, "castVote", u, p, i, PollNotFoundClient)
       ELSE IF PollExpired(polls[p], now)
       THEN ReturnsAtOnce(pr, "castVote", u, p, i, PollExpiredClient)
       ELSE IF OutOfBoundsClient(polls[p], i)
       THEN ReturnsAtOnce(pr, "castVote", u, p, i, InvalidOptionClient)
       ELSE /\ procs' = [procs EXCEPT ![pr] =
                   Waiting("castVote", IF u # NULL THEN "checkExisting" ELSE "insert",
                           u, p, i)]
            /\ UNCHANGED lastResult

\* The existing-vote select returns.
CastVoteCheckExisting(pr) ==
    /\ procs[pr].entry = "castVote"
    /\ procs[pr].pc = "checkExisting"
    /\ UNCHANGED <<polls, votes, rateLimitMap, now, pure>>
    /\ IF ExistingVote(votes, procs[pr].pollId, procs[pr].user)
       THEN Returns(pr, AlreadyVotedClient)
       ELSE MovesTo(pr, "insert")

\* The insert returns.
CastVoteInsert(pr) ==
    /\ procs[pr].entry = "castVote"
    /\ procs[pr].pc = "insert"
    /\ UNCHANGED <<polls, rateLimitMap, now, pure>>
    /\ IF InsertAllowed(polls, procs[pr].pollId)
       THEN /\ BagCardinality(votes) < MaxVotes
            /\ votes' = votes (+) SetToBag({VoteRow(procs[pr].pollId, procs[pr].user,
                                                    procs[pr].optionIndex)})
            /\ Returns(pr, NULL)
       ELSE /\ UNCHANGED votes
            /\ Returns(pr, InsertFailedClient)

(***************************************************************************)
(* deletePoll and updatePoll (server actions): one statement each.         *)
(***************************************************************************)
DeletePoll(pr, caller, id) ==
    /\ procs[pr] = Idle
    /\ UNCHANGED <<rateLimitMap, now, pure>>
    /\ IF caller = NULL
       THEN /\ UNCHANGED <<polls, votes>>
            /\ ReturnsAtOnce(pr, "deletePoll", caller, id, 0, LoginToDelete)
       ELSE IF ~IsUuid(id)
       THEN /\ UNCHANGED <<polls, votes>>
            /\ ReturnsAtOnce(pr, "deletePoll", caller, id, 0, DbError)
       ELSE LET removed == DeleteMatches(polls, id, caller)
            IN /\ polls' = [q \in PollIds |-> IF q \in removed THEN NoPoll ELSE polls[q]]
               /\ votes' = CascadeVotes(votes, removed)
               /\ ReturnsAtOnce(pr, "deletePoll", caller, id, 0, NULL)

UpdatePoll(pr, caller, id, question, options) ==
    /\ procs[pr] = Idle
    /\ UNCHANGED <<votes, rateLimitMap, now, pure>>
    /\ IF ~ValidUpdateInput(id, options)
       THEN /\ UNCHANGED polls
            /\ ReturnsAtOnce(pr, "updatePoll", caller, id, 0, ZodError)
       ELSE IF caller = NULL
       THEN /\ UNCHANGED polls
            /\ ReturnsAtOnce(pr, "updatePoll", caller, id, 0, LoginToUpdate)
       ELSE LET changed == UpdateMatches(polls, id, caller)
            IN /\ polls' = [q \in PollIds |->
                      IF q \in changed
                      THEN [polls[q] EXCEPT !.question = question, !.options = options]
                      ELSE polls[q]]
               /\ ReturnsAtOnce(pr, "updatePoll", caller, id, 0, NULL)

\* Time passes.
Tick ==
    /\ now + TickMs <= MaxTicks * TickMs
    /\ now' = now + TickMs
    /\ UNCHANGED <<polls, votes, rateLimitMap, procs, lastResult, pure>>

(***************************************************************************)
(* The polling service.  Both polls exist from the start: p1 belongs to u1 *)
(* and expires at the first tick, p2 belongs to u2 and never expires.      *)
(***************************************************************************)
InitPure ==
    /\ rlLog = <<>>
    /\ tallyIn = [options |-> <<>>, votes |-> <<>>]
    /\ tallyOut = <<>>
    /\ pctIn = [votes |-> 0, totalVotes |-> 0]
    /\ pctOut = <<>>
    /\ routed = <<>>

InitStore ==
    /\ polls = [q \in PollIds |->
                   [user_id |-> IF q = "p1" THEN "u1" ELSE "u2",
                    question |-> "q1",
                    options |-> <<"A", "B">>,
                    expires_at |-> IF q = "p1" THEN {TickMs} ELSE NoExpiry]]
    /\ votes = EmptyBag
    /\ rateLimitMap = [k \in RateKeys |-> NoBucket]
    /\ now = 0
    /\ procs = [pr \in Procs |-> Idle]
    /\ lastResult = NoResult

Init == InitStore /\ InitPure

(***************************************************************************)
(* Interleaved requests: voter u1 votes on p1 through both entry points,   *)
(* from several requests at once, while u1 and u2 call deletePoll on it    *)
(* and time passes.                                                        *)
(***************************************************************************)
ContendedVotes == {<<"p1", 0>>, <<"p1", 1>>}

Next ==
    \/ \E pr \in Procs, in \in ContendedVotes :
           SubmitVoteStart(pr, "u1", in[1], in[2])
    \/ \E pr \in Procs : SubmitVoteCheckExisting(pr)
    \/ \E pr \in Procs : SubmitVoteFetchPoll(pr)
    \/ \E pr \in Procs : SubmitVoteInsert(pr)
    \/ \E pr \in Procs, in \in ContendedVotes :
           CastVoteStart(pr, "u1", in[1], in[2])
    \/ \E pr \in Procs : CastVoteCheckExisting(pr)
    \/ \E pr \in Procs : CastVoteInsert(pr)
    \/ \E pr \in Procs, caller \in Users : DeletePoll(pr, caller, "p1")
    \/ Tick

Spec == Init /\ [][Next]_vars

(***************************************************************************)
(* One request after another: u1 votes on p1 with every kind of input,     *)
(* anyone calls deletePoll and updatePoll on p1, and time passes between   *)
(* the requests.                                                           *)
(***************************************************************************)
\* (pollId, optionIndex): in and out of the bounds of the poll, and the two
\* ways to fail voteSchema
SequentialVotes == {<<"p1", 0>>, <<"p1", 2>>, <<"p1", 10>>, <<BadId, 0>>}
SequentialPollIds == {"p1", BadId}

\* Time passes while no request is in flight.
TickBetweenRequests == procs[1] = Idle /\ Tick

NextSequential ==
    \/ \E in \in SequentialVotes : SubmitVoteStart(1, "u1", in[1], in[2])
    \/ SubmitVoteCheckExisting(1)
    \/ SubmitVoteFetchPoll(1)
    \/ SubmitVoteInsert(1)
    \/ \E in \in SequentialVotes : CastVoteStart(1, "u1", in[1], in[2])
    \/ CastVoteCheckExisting(1)
    \/ CastVoteInsert(1)
    \/ \E caller \in Voters, id \in SequentialPollIds : DeletePoll(1, caller, id)
    \/ \E caller \in Voters, id \in SequentialPollIds, options \in OptionListInputs :
           UpdatePoll(1, caller, id, "q2", options)
    \/ TickBetweenRequests

SpecSequential == Init /\ [][NextSequential]_vars

(***************************************************************************)
(* A burst: u1 and anonymous callers vote on both polls, one request after *)
(* another, all inside one rate-limit window (the clock stands still).     *)
(***************************************************************************)
BurstVoters == {"u1", NULL}

NextBurst ==
    \/ \E u \in BurstVoters, p \in PollIds : SubmitVoteStart(1, u, p, 0)
    \/ SubmitVoteCheckExisting(1)
    \/ SubmitVoteFetchPoll(1)
    \/ SubmitVoteInsert(1)
    \/ \E u \in BurstVoters, p \in PollIds : CastVoteStart(1, u, p, 0)
    \/ CastVoteCheckExisting(1)
    \/ CastVoteInsert(1)

SpecBurst == Init /\ [][NextBurst]_vars

(***************************************************************************)
(* The limiter on its own: direct rateLimit calls under one policy, on two *)
(* keys, while time passes.                                                *)
(***************************************************************************)
LimiterKeys == {RateLimitKey(u, "p1") : u \in Users}

\* One call rateLimit(identifier, maxRequests, VoteWindowMs), logged with
\* what it returned.
RateLimitCall(identifier, maxRequests) ==
    /\ Len(rlLog) < MaxRlCalls
    /\ LET rl == RateLimit(rateLimitMap, identifier, maxRequests, VoteWindowMs, now)
       IN /\ rateLimitMap' = rl.map
          /\ rlLog' = Append(rlLog, [identifier |-> identifier,
                                     maxRequests |-> maxRequests,
                                     at |-> now,
                                     success |-> rl.success,
                                     remaining |-> rl.remaining,
                                     resetTime |-> rl.resetTime])
    /\ UNCHANGED <<polls, votes, now, procs, lastResult,
                   tallyIn, tallyOut, pctIn, pctOut, routed>>

\* The callers keep to one policy: the maxRequests of the first call.
RateLimitCallUnderPolicy(identifier, maxRequests) ==
    /\ rlLog # <<>> => maxRequests = rlLog[1].maxRequests
    /\ RateLimitCall(identifier, maxRequests)

NextLimiter ==
    \/ \E identifier \in LimiterKeys, maxRequests \in 1..MaxRequestsBound :
           RateLimitCallUnderPolicy(identifier, maxRequests)
    \/ Tick

SpecLimiter == Init /\ [][NextLimiter]_vars

(***************************************************************************)
(* The tally on its own: getPollResults over any options and vote rows.    *)
(***************************************************************************)
TallyOptionNames == <<"A", "B", "C", "D", "E", "F">>
TallyIndices == (0 - 1)..MaxTallyOptions      \* option_index values, in and out of range
TallyVotes == UNION {[1..k -> TallyIndices] : k \in 0..MaxTallyVotes}

InitTally ==
    /\ InitStore
    /\ rlLog = <<>>
    /\ tallyIn \in {[options |-> SubSeq(TallyOptionNames, 1, n), votes |-> rows] :
                       n \in 0..MaxTallyOptions, rows \in TallyVotes}
    /\ tallyOut = <<>>
    /\ pctIn = [votes |-> 0, totalVotes |-> 0]
    /\ pctOut = <<>>
    /\ routed = <<>>

ComputeTally ==
    /\ tallyOut = <<>>
    /\ tallyOut' = <<PollResults(tallyIn.options, tallyIn.votes)>>
    /\ UNCHANGED <<polls, votes, rateLimitMap, now, procs, lastResult,
                   rlLog, tallyIn, pctIn, pctOut, routed>>

SpecTally == InitTally /\ [][ComputeTally]_vars

(***************************************************************************)
(* The tally over larger polls: the vote rows are given by how many votes  *)
(* each option has, up to MaxTallyCount per option.                        *)
(***************************************************************************)
MaxTallyCount == 23    \* votes per option handed to the tally

\* Vote rows with counts[i] votes for option index i - 1, for the first k
\* options.
RECURSIVE RowsOf(_, _)
RowsOf(counts, k) ==
    IF k = 0 THEN <<>>
    ELSE RowsOf(counts, k - 1) \o [j \in 1..counts[k] |-> k - 1]

InitTallyCounts ==
    /\ InitStore
    /\ rlLog = <<>>
    /\ tallyIn \in {[options |-> SubSeq(TallyOptionNames, 1, n), votes |-> RowsOf(counts, n)] :
                       n \in 1..MaxTallyOptions,
                       counts \in [1..MaxTallyOptions -> 0..MaxTallyCount]}
    /\ tallyOut = <<>>
    /\ pctIn = [votes |-> 0, totalVotes |-> 0]
    /\ pctOut = <<>>
    /\ routed = <<>>

SpecTallyCounts == InitTallyCounts /\ [][ComputeTally]_vars

(***************************************************************************)
(* The percentage on its own: getPercentage over any votes and totalVotes. *)
(***************************************************************************)
InitPercentage ==
    /\ InitStore
    /\ rlLog = <<>>
    /\ tallyIn = [options |-> <<>>, votes |-> <<>>]
    /\ tallyOut = <<>>
    /\ pctIn \in {[votes |-> c, totalVotes |-> t] : c \in 0..MaxTotal, t \in 0..MaxTotal}
    /\ pctIn.votes <= pctIn.totalVotes
    /\ pctOut = <<>>
    /\ routed = <<>>

GetPercentage ==
    /\ pctOut = <<>>
    /\ pctOut' = <<Percentage(pctIn.votes, pctIn.totalVotes)>>
    /\ UNCHANGED <<polls, votes, rateLimitMap, now, procs, lastResult,
                   rlLog, tallyIn, tallyOut, pctIn, routed>>

SpecPercentage == InitPercentage /\ [][GetPercentage]_vars

(***************************************************************************)
(* createPoll (server action), in its two versions: the one that inserts   *)
(* into polls, and the later one with an expiresAt field.                  *)
(***************************************************************************)
MinOptionLength == 1       \* option.length >= 1
MaxOptionLength == 200     \* option.length <= 200
LoginToCreate == "You must be logged in to create a poll."

\* formData.getAll("options").filter(Boolean): the empty strings are dropped.
FilterBoolean(submitted) == SelectSeq(submitted, LAMBDA option : option # "")

\* createPollSchema.options: 2 to 10 options, each of 1 to 200 characters,
\* all distinct.
ValidOptions(options) ==
    /\ Len(options) >= MinOptions
    /\ Len(options) <= MaxOptions
    /\ \A i \in 1..Len(options) :
           Len(options[i]) >= MinOptionLength /\ Len(options[i]) <= MaxOptionLength
    /\ \A i, j \in 1..Len(options) : options[i] = options[j] => i = j

\* createPollSchema.expiresAt: absent, or a date after the current time.
ValidExpiresAt(expiresAt, t) == \A expirationDate \in expiresAt : expirationDate > t

\* The first version: parse question and options, require a session, insert
\* the poll under a fresh id.  The expiresAt field of the form is not read.
CreatePoll(pr, caller, question, submitted, expiresAt) ==
    /\ procs[pr] = Idle
    /\ UNCHANGED <<votes, rateLimitMap, now, pure>>
    /\ LET options == FilterBoolean(submitted)
       IN IF ~ValidOptions(options)
          THEN /\ UNCHANGED polls
               /\ ReturnsAtOnce(pr, "createPoll", caller, "none", 0, ZodError)
          ELSE IF caller = NULL
          THEN /\ UNCHANGED polls
               /\ ReturnsAtOnce(pr, "createPoll", caller, "none", 0, LoginToCreate)
          ELSE /\ \E id \in PollIds :
                      /\ polls[id] = NoPoll
                      /\ polls' = [polls EXCEPT ![id] =
                                      [user_id |-> caller,
                                       question |-> question,
                                       options |-> options,
                                       expires_at |-> NoExpiry]]
               /\ ReturnsAtOnce(pr, "createPoll", caller, "none", 0, NULL)

\* The later version: parse question, options and expiresAt, log the poll
\* and return success; nothing is inserted.
CreatePollDemo(pr, caller, question, submitted, expiresAt) ==
    /\ procs[pr] = Idle
    /\ UNCHANGED <<polls, votes, rateLimitMap, now, pure>>
    /\ LET options == FilterBoolean(submitted)
       IN IF ~(ValidOptions(options) /\ ValidExpiresAt(expiresAt, now))
          THEN ReturnsAtOnce(pr, "createPollDemo", caller, "none", 0, ZodError)
          ELSE ReturnsAtOnce(pr, "createPollDemo", caller, "none", 0, NULL)

(***************************************************************************)
(* Creation on its own: the polls table starts empty, anyone submits       *)
(* option lists of every kind with and without an expiresAt, and time      *)
(* passes.                                                                 *)
(***************************************************************************)
RECURSIVE Repeat(_, _)
Repeat(text, n) == IF n = 0 THEN "" ELSE text \o Repeat(text, n - 1)

OptionNames == <<"A", "B", "C", "D", "E", "F", "G", "H", "I", "J", "K">>
CreateOptionInputs ==
    { <<"A", "B">>,                                  \* well-formed
      <<"A">>,                                       \* too few
      <<"A", "A">>,                                  \* not distinct
      <<"A", "B", "">>,                              \* an empty option
      <<"A", Repeat("x", MaxOptionLength)>>,         \* the longest option allowed
      <<"A", Repeat("x", MaxOptionLength + 1)>>,     \* an option too long
      SubSeq(OptionNames, 1, MaxOptions),            \* the most options allowed
      SubSeq(OptionNames, 1, MaxOptions + 1) }       \* too many
ExpiresAtInputs == {NoExpiry, {0}, {TickMs}, {2 * TickMs}}

InitCreate ==
    /\ polls = [q \in PollIds |-> NoPoll]
    /\ votes = EmptyBag
    /\ rateLimitMap = [k \in RateKeys |-> NoBucket]
    /\ now = 0
    /\ procs = [pr \in Procs |-> Idle]
    /\ lastResult = NoResult
    /\ InitPure

NextCreate ==
    \/ \E caller \in Voters, submitted \in CreateOptionInputs, expiresAt \in ExpiresAtInputs :
           CreatePoll(1, caller, "q1", submitted, expiresAt)
    \/ \E caller \in Voters, submitted \in CreateOptionInputs, expiresAt \in ExpiresAtInputs :
           CreatePollDemo(1, caller, "q1", submitted, expiresAt)
    \/ Tick

SpecCreate == InitCreate /\ [][NextCreate]_vars

(***************************************************************************)
(* middleware.ts: every page request passes through it.                    *)
(***************************************************************************)
DashboardPaths == {"/polls", "/create"}      \* app/(dashboard)
AuthPaths == {"/login", "/register"}
PassedThrough == "NextResponse.next()"

\* middleware(request): the response, given the path and the session.
MiddlewareResponse(path, user) == PassedThrough

\* One page request is answered.
Middleware(path, user) ==
    /\ Len(routed) < MaxRouted
    /\ routed' = Append(routed, [path |-> path, user |-> user,
                                 response |-> MiddlewareResponse(path, user)])
    /\ UNCHANGED <<polls, votes, rateLimitMap, now, procs, lastResult,
                   rlLog, tallyIn, tallyOut, pctIn, pctOut>>

NextMiddleware ==
    \E path \in DashboardPaths \cup AuthPaths, user \in Voters : Middleware(path, user)

SpecMiddleware == Init /\ [][NextMiddleware]_vars

(***************************************************************************)
(* Properties of the tally.                                                *)
(***************************************************************************)
\* How many of the vote rows carry option index i.
VotesFor(rows, i) == Cardinality({k \in 1..Len(rows) : rows[k] = i})

\* C9: for every option list of length n and every sequence of vote option
\* indices, the count of option i is the number of votes with index i, votes
\* with an index outside 0..n-1 are ignored, and totalVotes is the sum of the
\* counts, the number of in-range votes.
TallyCountsInRangeVotes ==
    tallyOut # <<>> =>
        LET n == Len(tallyIn.options)
            rows == tallyIn.votes
            result == tallyOut[1]
        IN /\ DOMAIN result.options = 1..n
           /\ \A i \in 1..n : result.options[i].votes = VotesFor(rows, i - 1)
           /\ \A i \in 1..n : result.options[i].text = tallyIn.options[i]
           /\ result.totalVotes =
                  Cardinality({k \in 1..Len(rows) : rows[k] \in 0..(n - 1)})
           /\ result.totalVotes = SumCounts([i \in 1..n |-> result.options[i].votes], n)

\* C9, its case: a tally was computed over rows of which some are in range,
\* one is below 0 and one is at or beyond the number of options.
TallyIgnoredOutOfRange ==
    /\ tallyOut # <<>>
    /\ Len(tallyIn.options) = 2
    /\ \E j, k, l \in 1..Len(tallyIn.votes) :
           /\ tallyIn.votes[j] < 0
           /\ tallyIn.votes[k] >= 2
           /\ tallyIn.votes[l] = 0
    /\ tallyOut[1].totalVotes = 2

\* n * 100 / d rounded to the nearest integer, a half going up.
RoundHalfUp(n, d) == ((2 * n) + d) \div (2 * d)

\* C10: the percentage is 100 * count / totalVotes rounded to the nearest
\* integer, half up, when totalVotes > 0, and 0 when totalVotes = 0.
PercentageIsRoundedShare ==
    pctOut # <<>> =>
        pctOut[1] = IF pctIn.totalVotes > 0
                    THEN RoundHalfUp(100 * pctIn.votes, pctIn.totalVotes)
                    ELSE 0


(***************************************************************************)
(* Properties of the limiter.                                              *)
(***************************************************************************)
\* Call j of the log finds no live bucket under its key: every earlier call
\* under the key was made more than a window before it.
NoLiveBucketAt(j) ==
    \A i \in 1..(j - 1) :
        rlLog[i].identifier = rlLog[j].identifier
            => rlLog[i].at + VoteWindowMs < rlLog[j].at

\* The calls j..k of the log made under the key of call j.
CallsUnderKey(j, k) ==
    Cardinality({i \in j..k : rlLog[i].identifier = rlLog[j].identifier})

\* C5: starting from a key with no live bucket, the first N calls inside one
\* window succeed with remaining N-1, N-2, ..., 0 in that order, and the
\* (N+1)-th call inside the same window does not succeed.
LimiterCountsDown ==
    \A j \in 1..Len(rlLog) : \A k \in j..Len(rlLog) :
        ( /\ NoLiveBucketAt(j)
          /\ rlLog[k].identifier = rlLog[j].identifier
          /\ rlLog[k].at < rlLog[j].at + VoteWindowMs )
        => LET n == rlLog[j].maxRequests
               m == CallsUnderKey(j, k)
           IN /\ m <= n => rlLog[k].success /\ rlLog[k].remaining = n - m
              /\ m = n + 1 => ~rlLog[k].success

\* C5, its case: under the vote policy a key got five calls and a sixth in
\* one window, a tick after the first, and the sixth was refused.
LimiterRefusedSixth ==
    /\ Len(rlLog) = VoteMaxRequests + 1
    /\ \A i \in 1..Len(rlLog) :
           /\ rlLog[i].identifier = rlLog[1].identifier
           /\ rlLog[i].maxRequests = VoteMaxRequests
    /\ rlLog[1].at = 0
    /\ rlLog[Len(rlLog)].at = TickMs
    /\ ~rlLog[Len(rlLog)].success

(***************************************************************************)
(* Properties of voting.                                                   *)
(***************************************************************************)
VoteEntries == {"submitVote", "castVote"}
OwnerEntries == {"deletePoll", "updatePoll"}

\* The request that returned last was a vote attempt of u on p.
LastWasVote(u, p) ==
    /\ lastResult.entry \in VoteEntries
    /\ lastResult.user = u
    /\ lastResult.pollId = p

\* C1: under any interleaving of the vote attempts of an authenticated voter
\* on a poll, votes holds at most one row for the pair, and one row when an
\* attempt has just succeeded.
AtMostOneVotePerVoter ==
    \A p \in PollIds, u \in Users :
        /\ VoteCount(votes, p, u) <= 1
        /\ (LastWasVote(u, p) /\ lastResult.error = NULL) => VoteCount(votes, p, u) = 1

\* The rows of votes that were admitted under rate-limit key k.
RowsUnderKey(vs, k) ==
    LET rows == {r \in DOMAIN vs : RateLimitKey(r.user_id, r.poll_id) = k}
    IN BagCardinality([r \in rows |-> vs[r]])

\* C6: within one rate-limit window at most 5 vote rows are persisted under
\* one rate-limit key, whichever entry point the votes come through.
AtMostFiveVotesPerKey ==
    \A k \in RateKeys : RowsUnderKey(votes, k) <= VoteMaxRequests

\* C8: deletePoll and updatePoll called on an existing poll by an
\* authenticated caller who is not its owner return an error, not success.
NonOwnerIsRefused ==
    \A p \in PollIds :
        ( /\ lastResult.entry \in OwnerEntries
          /\ lastResult.pollId = p
          /\ lastResult.user \in Users
          /\ polls[p] # NoPoll
          /\ polls[p].user_id # lastResult.user )
        => lastResult.error # NULL

\* The input of the last request passes voteSchema and the option bounds of
\* the poll, and the poll has not expired.
LastVoteWasWellFormed(p) ==
    /\ polls[p] # NoPoll
    /\ ValidVoteInput(p, lastResult.optionIndex)
    /\ ~OutOfBoundsClient(polls[p], lastResult.optionIndex)
    /\ ~PollExpired(polls[p], now)

\* C2, as stated: once the first vote of an authenticated voter on a poll has
\* succeeded, every later attempt of the voter on the poll, one after
\* another, returns DuplicateVote.  (Read for well-formed attempts on a poll
\* that has not expired; the successful attempt itself returns no error.)
LaterVotesReturnDuplicate ==
    \A p \in PollIds, u \in Users :
        ( /\ LastWasVote(u, p)
          /\ VoteCount(votes, p, u) >= 1
          /\ LastVoteWasWellFormed(p)
          /\ lastResult.error # NULL )
        => lastResult.error \in DuplicateVote

\* The errors of the checks that an entry point makes before it looks for an
\* existing vote.
EarlierRejections(entry) ==
    IF entry = "submitVote" THEN ValidationError \cup RateLimited
    ELSE ValidationError \cup Expired \cup InvalidOption

\* C2, amended: while the voter's row on the poll stands, a later attempt,
\* one after another, never succeeds: it returns DuplicateVote unless an
\* earlier check of its entry point rejects it first, which for a
\* well-formed attempt is only the rate limit of submitVote.
LaterVotesNeverSucceed ==
    \A p \in PollIds, u \in Users :
        (LastWasVote(u, p) /\ VoteCount(votes, p, u) >= 1)
        => IF lastResult.error = NULL
           THEN VoteCount(votes, p, u) = 1
           ELSE /\ lastResult.error \in
                       DuplicateVote \cup EarlierRejections(lastResult.entry)
                /\ (LastVoteWasWellFormed(p) /\ lastResult.entry = "castVote")
                       => lastResult.error \in DuplicateVote
                /\ (LastVoteWasWellFormed(p) /\ lastResult.entry = "submitVote")
                       => lastResult.error \in DuplicateVote \cup RateLimited

\* C2, its case: with the row of u1 on p1 in place, a sixth well-formed
\* submitVote in the window was turned away by the rate limit.
LaterVoteWasRateLimited ==
    /\ VoteCount(votes, "p1", "u1") = 1
    /\ LastWasVote("u1", "p1")
    /\ LastVoteWasWellFormed("p1")
    /\ lastResult.entry = "submitVote"
    /\ lastResult.error \in RateLimited

\* The step belongs to a vote attempt of u on p: the request waiting on the
\* store, or the one that has returned by the end of the step.
VoteStepOf(u, p) ==
    \/ \E pr \in Procs :
           /\ procs[pr].entry \in VoteEntries
           /\ procs[pr].user = u
           /\ procs[pr].pollId = p
    \/ /\ lastResult'.entry \in VoteEntries
       /\ lastResult'.user = u
       /\ lastResult'.pollId = p

\* C3: after the first successful vote of an authenticated voter on a poll,
\* no step of a further attempt of the voter on the poll, one after another,
\* inserts a row: votes, and with it the counts and totalVotes of the poll,
\* stay as they are.
LaterVotesInsertNothing ==
    [][\A p \in PollIds, u \in Users :
           (VoteCount(votes, p, u) >= 1 /\ VoteStepOf(u, p)) => votes' = votes]_vars

\* C3, its case: with the row of u1 on p1 in place, castVote was tried again
\* and refused, and the row is still the only one.
LaterVoteWasRefused ==
    /\ VoteCount(votes, "p1", "u1") = 1
    /\ BagCardinality(votes) = 1
    /\ LastWasVote("u1", "p1")
    /\ lastResult.entry = "castVote"
    /\ lastResult.error \in DuplicateVote

\* The step ends with a vote attempt returning.
VoteReturns ==
    /\ lastResult'.entry \in VoteEntries
    /\ \E pr \in Procs :
           /\ procs'[pr] = Idle
           /\ procs[pr] # Idle \/ lastResult' # lastResult

\* C4: on a poll whose expires_at is set and earlier than the current time,
\* a vote attempt with structurally valid input, through either entry point,
\* returns Expired, whatever the option index, and inserts no row.
ExpiredPollRefusesVotes ==
    [][\A p \in PollIds :
           ( /\ VoteReturns
             /\ lastResult'.pollId = p
             /\ ValidVoteInput(p, lastResult'.optionIndex)
             /\ polls[p] # NoPoll
             /\ PollExpired(polls[p], now) )
           => lastResult'.error \in Expired /\ votes' = votes]_vars

(***************************************************************************)
(* Properties of deletePoll and updatePoll.                                *)
(***************************************************************************)
\* The rows of votes of poll p.
VotesOf(vs, p) == [r \in {x \in DOMAIN vs : x.poll_id = p} |-> vs[r]]

\* C7: a deletePoll or updatePoll by a caller who is not the stored owner of
\* a poll leaves the record of the poll (question, options, owner,
\* expiration) and its votes unchanged.
NonOwnerLeavesPoll ==
    [][\A p \in PollIds :
           ( /\ lastResult'.entry \in OwnerEntries
             /\ polls[p] # NoPoll
             /\ lastResult'.user # polls[p].user_id )
           => polls'[p] = polls[p] /\ VotesOf(votes', p) = VotesOf(votes, p)]_vars

\* C7, its case: u2 called deletePoll on p1, which belongs to u1 and holds
\* the vote of u1; poll and vote are still there.
NonOwnerDeleteLeftPoll ==
    /\ lastResult.entry = "deletePoll"
    /\ lastResult.user = "u2"
    /\ lastResult.pollId = "p1"
    /\ polls["p1"] # NoPoll
    /\ polls["p1"].user_id = "u1"
    /\ VoteCount(votes, "p1", "u1") = 1

(***************************************************************************)
(* Properties of createPoll.                                               *)
(***************************************************************************)
\* The option list as submitted has 2 to 10 entries, each of 1 to 200
\* characters, all distinct.
SubmittedWellFormed(submitted) ==
    /\ Len(submitted) \in MinOptions..MaxOptions
    /\ \A i \in 1..Len(submitted) :
           Len(submitted[i]) \in MinOptionLength..MaxOptionLength
    /\ \A i, j \in 1..Len(submitted) : submitted[i] = submitted[j] => i = j

\* C11: createPoll persists a poll only when the submitted option list has
\* 2 to 10 entries, each of 1 to 200 characters, all distinct; otherwise it
\* returns a ValidationError and persists nothing.
CreatePollValidatesOptions ==
    [][\A caller \in Voters, submitted \in CreateOptionInputs,
          expiresAt \in ExpiresAtInputs :
           (CreatePoll(1, caller, "q1", submitted, expiresAt)
                /\ ~SubmittedWellFormed(submitted))
           => lastResult'.error \in ValidationError /\ polls' = polls]_vars

\* The step is a createPoll, in either version, with this input.
CreatePollStep(caller, submitted, expiresAt) ==
    \/ CreatePoll(1, caller, "q1", submitted, expiresAt)
    \/ CreatePollDemo(1, caller, "q1", submitted, expiresAt)

\* C12: createPoll given an expiresAt that is not later than the current
\* time returns a ValidationError and persists nothing; given an expiresAt
\* in the future, and succeeding, it persists the poll with that expiration.
CreatePollHonoursExpiresAt ==
    [][\A caller \in Users, submitted \in CreateOptionInputs,
          expiresAt \in ExpiresAtInputs \ {NoExpiry} :
           (CreatePollStep(caller, submitted, expiresAt)
                /\ SubmittedWellFormed(submitted))
           => IF ValidExpiresAt(expiresAt, now)
              THEN lastResult'.error = NULL
                   => \E id \in PollIds :
                          /\ polls[id] = NoPoll
                          /\ polls'[id] # NoPoll
                          /\ polls'[id].expires_at = expiresAt
              ELSE lastResult'.error \in ValidationError /\ polls' = polls]_vars

(***************************************************************************)
(* Properties of expiry and deletion under interleaving.                   *)
(***************************************************************************)
\* C13: once the current time is past the expires_at of a poll, no step of a
\* vote attempt changes the vote rows of the poll, also when the expiry
\* check of the attempt ran before the expiration and its insert after it.
\* (A step that deletes the poll is not a vote attempt.)
ExpiredPollKeepsVotes ==
    [][\A p \in PollIds :
           ( /\ polls[p] # NoPoll
             /\ PollExpired(polls[p], now)
             /\ polls'[p] # NoPoll )
           => VotesOf(votes', p) = VotesOf(votes, p)]_vars

\* C14: after a deletePoll by the owner has removed a poll, no vote row
\* references it in any later state, also when a vote attempt passed its
\* poll-existence check before the deletion and inserts after it.
NoVoteForDeletedPoll ==
    \A r \in DOMAIN votes : votes[r] > 0 => polls[r.poll_id] # NoPoll

\* C14, its case: p1 is deleted, and the castVote of u1 that had found p1
\* before the deletion has come back from its insert with a failure.
InsertAfterDeleteFailed ==
    /\ polls["p1"] = NoPoll
    /\ LastWasVote("u1", "p1")
    /\ lastResult.entry = "castVote"
    /\ lastResult.error = InsertFailedClient

(***************************************************************************)
(* Properties of anonymous voting.                                         *)
(***************************************************************************)
\* C15: a vote attempt without a voter identity, on a poll that exists and
\* has not expired, with a valid option index, and not refused by the rate
\* limiter, succeeds and inserts its own row with a null voter, however
\* many such rows the poll already has.
AnonymousVotesAllCount ==
    [][\A p \in PollIds :
           ( /\ VoteReturns
             /\ lastResult'.user = NULL
             /\ lastResult'.pollId = p
             /\ ValidVoteInput(p, lastResult'.optionIndex)
             /\ polls[p] # NoPoll
             /\ ~PollExpired(polls[p], now)
             /\ ~OutOfBoundsClient(polls[p], lastResult'.optionIndex)
             /\ lastResult'.error \notin RateLimited )
           => /\ lastResult'.error = NULL
              /\ votes' = votes (+) SetToBag({[poll_id |-> p, user_id |-> NULL,
                                               option_index |-> lastResult'.optionIndex]})]_vars

\* C15, its case: p1 holds three anonymous rows, the last of them inserted
\* by a submitVote that has just succeeded.
AnonymousVotedThrice ==
    /\ VoteCount(votes, "p1", NULL) = 3
    /\ LastWasVote(NULL, "p1")
    /\ lastResult.entry = "submitVote"
    /\ lastResult.error = NULL

(***************************************************************************)
(* Properties of the error messages.                                       *)
(***************************************************************************)
ServerEntries == {"createPoll", "submitVote", "updatePoll", "deletePoll"}

\* The messages the server actions word themselves, the validation message
\* among them.
UserSafeMessages ==
    {ZodError, TooManyVotes, AlreadyVotedServer, PollNotFoundServer,
     InvalidOptionServer, LoginToCreate, LoginToUpdate, LoginToDelete}

\* C16: an error returned by createPoll, submitVote, updatePoll or
\* deletePoll is one of a fixed set of user-safe messages, never the error
\* text of the store.
ErrorsAreUserSafe ==
    (lastResult.entry \in ServerEntries /\ lastResult.error # NULL)
        => lastResult.error \in UserSafeMessages

(***************************************************************************)
(* Properties of the middleware.                                           *)
(***************************************************************************)
\* C17: a request for a dashboard route made without an authenticated
\* session is never passed through to the route handler.
DashboardNeedsSession ==
    \A i \in 1..Len(routed) :
        (routed[i].path \in DashboardPaths /\ routed[i].user = NULL)
            => routed[i].response # PassedThrough

(***************************************************************************)
(* Properties of single rateLimit calls.  rateLimit has no await, so a     *)
(* call is one step, and concurrent requests interleave whole calls.       *)
(***************************************************************************)
\* The step is a rateLimit call; LastCall is its log entry, BucketBefore and
\* BucketAfter the bucket of its key around the call.
RateLimitCalled == Len(rlLog') = Len(rlLog) + 1
LastCall == rlLog'[Len(rlLog')]
BucketBefore == rateLimitMap[LastCall.identifier]
BucketAfter == rateLimitMap'[LastCall.identifier]

\* C18: a call at or after the resetTime of the bucket, or for a key with
\* no bucket, replaces the bucket with count 1 and resetTime now + windowMs
\* and returns success with remaining maxRequests - 1.
CallAtResetTimeStartsWindow ==
    [][(RateLimitCalled /\ (BucketBefore = NoBucket \/ now >= BucketBefore.resetTime))
           => /\ BucketAfter = [count |-> 1, resetTime |-> now + VoteWindowMs]
              /\ LastCall.success
              /\ LastCall.remaining = LastCall.maxRequests - 1
              /\ LastCall.resetTime = now + VoteWindowMs]_vars

\* C19: a call that finds the bucket inside its window with count >=
\* maxRequests returns success = false, remaining = 0 and the resetTime of
\* the bucket, and leaves the bucket as it is.
DeniedCallLeavesBucket ==
    [][( /\ RateLimitCalled
         /\ BucketBefore # NoBucket
         /\ now < BucketBefore.resetTime
         /\ BucketBefore.count >= LastCall.maxRequests )
           => /\ ~LastCall.success
              /\ LastCall.remaining = 0
              /\ LastCall.resetTime = BucketBefore.resetTime
              /\ rateLimitMap' = rateLimitMap]_vars

\* C19, its case: a key was refused twice, a tick apart, and the second
\* refusal reports the resetTime of the window's first call.
DeniedTwiceSameWindow ==
    /\ Len(rlLog) >= 3
    /\ \A i \in 1..3 : rlLog[i].identifier = rlLog[1].identifier
    /\ rlLog[1].success
    /\ ~rlLog[2].success
    /\ ~rlLog[3].success
    /\ rlLog[3].at = rlLog[2].at + TickMs
    /\ rlLog[3].resetTime = rlLog[1].resetTime
    /\ rateLimitMap[rlLog[1].identifier].resetTime = rlLog[1].resetTime

\* The calls of the log that were allowed under the key in the window that
\* ends at resetTime.
AllowedCalls(identifier, resetTime) ==
    {i \in 1..Len(rlLog) : /\ rlLog[i].identifier = identifier
                           /\ rlLog[i].success
                           /\ rlLog[i].resetTime = resetTime}

\* C20: however the calls of concurrent requests under one key interleave,
\* no increment is lost: the count of the bucket is the number of calls
\* allowed in its window, and that number never exceeds maxRequests.
BucketCountsAllowedCalls ==
    \A identifier \in LimiterKeys :
        LET bucket == rateLimitMap[identifier]
        IN bucket # NoBucket
           => /\ bucket.count = Cardinality(AllowedCalls(identifier, bucket.resetTime))
              /\ bucket.count <= rlLog[1].maxRequests

\* C20, its case: both keys were called in turn under the vote policy, one
\* of them up to its limit and beyond.
InterleavedCallsCounted ==
    /\ Len(rlLog) = MaxRlCalls
    /\ rlLog[1].maxRequests = 2
    /\ \E i, j \in 1..Len(rlLog) :
           /\ i < j
           /\ rlLog[i].identifier # rlLog[1].identifier
           /\ rlLog[j].identifier = rlLog[1].identifier
           /\ ~rlLog[j].success
    /\ rateLimitMap[rlLog[1].identifier].count = 2

(***************************************************************************)
(* The order of the checks of submitVote.                                  *)
(***************************************************************************)
\* The bucket has no slot left at time t.
BudgetExhausted(bucket, t) ==
    /\ bucket # NoBucket
    /\ t < bucket.resetTime
    /\ bucket.count >= VoteMaxRequests

\* The step takes request pr from idle to the existing-vote select of
\* submitVote.
ReachesDuplicateCheck(pr) ==
    /\ procs[pr] = Idle
    /\ procs'[pr].entry = "submitVote"
    /\ procs'[pr].pc = "checkExisting"

\* The step returns the submitVote that request pr was waiting in.
SubmitVoteReturnsFromWait(pr) ==
    /\ procs[pr] # Idle
    /\ procs'[pr] = Idle
    /\ lastResult'.entry = "submitVote"

\* The step is a submitVote that returns before its first wait.
SubmitVoteReturnsAtOnce ==
    /\ procs' = procs
    /\ lastResult' # lastResult
    /\ lastResult'.entry = "submitVote"

\* C21: submitVote checks the rate limit before the duplicate: a submitVote
\* of a voter who has voted on the poll, made with the budget exhausted,
\* never returns DuplicateVote; DuplicateVote comes only out of the
\* existing-vote select, and every request that reaches it has taken one
\* slot of the bucket of its key.
RateLimitBeforeDuplicateCheck ==
    [][/\ SubmitVoteReturnsAtOnce => lastResult'.error \notin DuplicateVote
       /\ ( /\ SubmitVoteReturnsAtOnce
            /\ lastResult'.user # NULL
            /\ ValidVoteInput(lastResult'.pollId, lastResult'.optionIndex)
            /\ BudgetExhausted(rateLimitMap[RateLimitKey(lastResult'.user,
                                                         lastResult'.pollId)], now) )
              => lastResult'.error \in RateLimited
       /\ \A pr \in Procs :
          /\ (SubmitVoteReturnsFromWait(pr) /\ lastResult'.error \in DuplicateVote)
                 => procs[pr].pc = "checkExisting"
          /\ ReachesDuplicateCheck(pr)
                 => LET key == RateLimitKey(procs'[pr].user, procs'[pr].pollId)
                        taken == IF StartsFresh(rateLimitMap[key], now) THEN 1
                                 ELSE rateLimitMap[key].count + 1
                    IN /\ rateLimitMap'[key].count = taken
                       /\ taken <= VoteMaxRequests]_vars

\* C21, its case: u1 has a vote on p1, has used the five slots of the
\* window, and the next submitVote on p1 was answered RateLimited.
VotedAndOverBudget ==
    /\ ExistingVote(votes, "p1", "u1")
    /\ BudgetExhausted(rateLimitMap[RateLimitKey("u1", "p1")], now)
    /\ lastResult.entry = "submitVote"
    /\ lastResult.user = "u1"
    /\ lastResult.pollId = "p1"
    /\ lastResult.optionIndex = 0
    /\ lastResult.error = TooManyVotes

\* A vote on poll id p with option index i meets a poll that is missing,
\* expired or shorter than the index, at time t.
FailsPollChecks(ps, p, i, t) ==
    \/ ps[p] = NoPoll
    \/ PollExpired(ps[p], t)
    \/ OutOfBoundsClient(ps[p], i)

PollCheckErrors == NotFound \cup Expired \cup InvalidOption

\* C22: the checks of a vote run in the order existence, expiry, option
\* bounds, rate limit: a structurally valid vote attempt on a poll that is
\* missing, expired or shorter than the option index returns NotFound,
\* Expired or InvalidOption without taking a slot of the bucket of its key,
\* whatever is left of the budget.
PollChecksBeforeRateLimit ==
    [][\A pr \in Procs :
          /\ ( /\ procs[pr] = Idle
               /\ procs'[pr] # Idle
               /\ procs'[pr].entry \in VoteEntries
               /\ FailsPollChecks(polls, procs'[pr].pollId, procs'[pr].optionIndex, now) )
                 => rateLimitMap' = rateLimitMap
          /\ ( /\ procs' = procs
               /\ lastResult' # lastResult
               /\ lastResult'.entry \in VoteEntries
               /\ ValidVoteInput(lastResult'.pollId, lastResult'.optionIndex)
               /\ FailsPollChecks(polls, lastResult'.pollId, lastResult'.optionIndex, now) )
                 => /\ lastResult'.error \in PollCheckErrors
                    /\ rateLimitMap' = rateLimitMap]_vars

(***************************************************************************)
(* The bucket of the anonymous voters of a poll.                           *)
(***************************************************************************)
\* The anonymous vote attempts on poll p that were admitted: the requests
\* waiting on the store and the rows they have inserted.
AdmittedAnonymous(ps, vs, p) ==
    VoteCount(vs, p, NULL)
        + Cardinality({pr \in Procs : /\ ps[pr].entry \in VoteEntries
                                      /\ ps[pr].user = NULL
                                      /\ ps[pr].pollId = p})

\* The step belongs to an anonymous vote attempt on poll p.
AnonymousVoteStep(p) ==
    \/ \E pr \in Procs : /\ procs'[pr].entry \in VoteEntries
                         /\ procs'[pr].user = NULL
                         /\ procs'[pr].pollId = p
    \/ /\ lastResult' # lastResult
       /\ lastResult'.entry \in VoteEntries
       /\ lastResult'.user = NULL
       /\ lastResult'.pollId = p

\* C23: the anonymous vote attempts on a poll share the one bucket keyed by
\* the poll id: within one window at most 5 of them are admitted, and they
\* leave the buckets of the other polls as they are.
AnonymousBucketPerPoll ==
    [][\A p \in PollIds :
          /\ AdmittedAnonymous(procs', votes', p) <= VoteMaxRequests
          /\ AnonymousVoteStep(p)
                 => \A q \in PollIds \ {p} :
                        rateLimitMap'[RateLimitKey(NULL, q)]
                            = rateLimitMap[RateLimitKey(NULL, q)]]_vars

(***************************************************************************)
(* Votes and the option list of their poll.                                *)
(***************************************************************************)
\* C24: in every state, after any create, vote and owner updatePoll, the
\* option index of every row of votes is below the number of options its
\* poll has now.
VotesWithinOptions ==
    \A r \in BagToSet(votes) :
        /\ polls[r.poll_id] # NoPoll
        /\ r.option_index < Len(polls[r.poll_id].options)

\* The question or the options of poll p differ before and after the step.
ContentChanges(p) ==
    /\ polls[p] # NoPoll
    /\ polls'[p] # NoPoll
    /\ \/ polls'[p].question # polls[p].question
       \/ polls'[p].options # polls[p].options

\* C25: updatePoll on a poll whose expires_at is in the past is rejected,
\* for the owner too, and leaves question and options as they are; question
\* and options change only by an updatePoll of the owner on a poll that is
\* not expired.
ExpiredPollIsFrozen ==
    [][\A p \in PollIds :
          /\ ContentChanges(p)
                 => /\ ~PollExpired(polls[p], now)
                    /\ lastResult'.entry = "updatePoll"
                    /\ lastResult'.user = polls[p].user_id
          /\ ( /\ polls[p] # NoPoll
               /\ PollExpired(polls[p], now)
               /\ lastResult' # lastResult
               /\ lastResult'.entry = "updatePoll"
               /\ lastResult'.pollId = p )
                 => lastResult'.error # NULL]_vars

(***************************************************************************)
(* The burst at a window boundary.                                         *)
(***************************************************************************)
\* The calls of the log allowed under the key at a time in [from, from +
\* VoteWindowMs].
AllowedWithin(identifier, from) ==
    {i \in 1..Len(rlLog) : /\ rlLog[i].identifier = identifier
                           /\ rlLog[i].success
                           /\ rlLog[i].at >= from
                           /\ rlLog[i].at <= from + VoteWindowMs}

\* C26: for any key and any maxRequests N >= 1, at most 2 * N calls are
\* allowed within any interval of length windowMs, wherever the calls fall
\* around a window boundary.
BurstAtMostTwiceLimit ==
    \A j \in 1..Len(rlLog) :
        Cardinality(AllowedWithin(rlLog[j].identifier, rlLog[j].at))
            <= 2 * rlLog[j].maxRequests

\* C26, its case: an interval of length windowMs spans a window boundary
\* and holds allowed calls of both windows, more than maxRequests in all.
BurstAcrossBoundary ==
    \E j, k \in 1..Len(rlLog) :
        /\ rlLog[k].identifier = rlLog[j].identifier
        /\ rlLog[k].resetTime # rlLog[j].resetTime
        /\ {j, k} \subseteq AllowedWithin(rlLog[j].identifier, rlLog[j].at)
        /\ Cardinality(AllowedWithin(rlLog[j].identifier, rlLog[j].at))
               > rlLog[j].maxRequests

(***************************************************************************)
(* The existing-vote lookup.                                               *)
(***************************************************************************)
\* The step is the existing-vote lookup of request pr, after which pr goes
\* on towards the insert.
PassesDuplicateCheck(pr) ==
    /\ procs[pr].entry \in VoteEntries
    /\ procs[pr].pc = "checkExisting"
    /\ procs'[pr].entry = procs[pr].entry
    /\ procs'[pr].pc \in {"fetchPoll", "insert"}

\* C27: a vote attempt of an authenticated voter goes on to the insert only
\* when the existing-vote lookup for (poll, voter) returned zero rows; a
\* lookup that matches more than one row stops the attempt, in submitVote
\* and in castVote.
InsertOnlyAfterEmptyLookup ==
    [][\A pr \in Procs :
          PassesDuplicateCheck(pr)
              => VoteCount(votes, procs[pr].pollId, procs[pr].user) = 0]_vars

(***************************************************************************)
(* The buckets of different keys.                                          *)
(***************************************************************************)
RECURSIVE OwnBucket(_, _, _)
\* The bucket of the key after the first n calls of the log, had only the
\* calls under this key been made.
OwnBucket(log, identifier, n) ==
    IF n = 0 THEN NoBucket
    ELSE LET before == OwnBucket(log, identifier, n - 1)
         IN IF log[n].identifier # identifier THEN before
            ELSE RateLimit([k \in {identifier} |-> before], identifier,
                           log[n].maxRequests, VoteWindowMs, log[n].at).map[identifier]

\* What the last call of the log returns, had only the calls under its key
\* been made.
OwnVerdict(log) ==
    LET last == log[Len(log)]
    IN RateLimit([k \in {last.identifier} |->
                     OwnBucket(log, last.identifier, Len(log) - 1)],
                 last.identifier, last.maxRequests, VoteWindowMs, last.at)

\* C28: a rateLimit call for a key leaves the bucket of every other key as
\* it is, and what it returns is what it would return had no call been made
\* under any other key.
CallKeepsOtherBuckets ==
    [][RateLimitCalled
           => /\ \A k \in RateKeys \ {LastCall.identifier} :
                     rateLimitMap'[k] = rateLimitMap[k]
              /\ LastCall.success = OwnVerdict(rlLog').success
              /\ LastCall.remaining = OwnVerdict(rlLog').remaining
              /\ LastCall.resetTime = OwnVerdict(rlLog').resetTime]_vars

\* C28, its case: a key was called, then another key started its window in
\* a later tick, then the first key was called again and refused, its
\* bucket still the one of its first call.
OtherKeyCalledBetween ==
    /\ Len(rlLog) >= 3
    /\ rlLog[3].identifier = rlLog[1].identifier
    /\ rlLog[2].identifier # rlLog[1].identifier
    /\ rlLog[2].at > rlLog[1].at
    /\ rlLog[2].success
    /\ ~rlLog[3].success
    /\ rateLimitMap[rlLog[1].identifier] = [count |-> 1, resetTime |-> rlLog[1].resetTime]
    /\ rateLimitMap[rlLog[2].identifier] = [count |-> 1, resetTime |-> rlLog[2].resetTime]

(***************************************************************************)
(* Vote attempts that fail voteSchema.                                     *)
(***************************************************************************)
\* C29: a vote attempt whose poll id is no UUID, or whose option index is
\* outside 0..9, returns an error before it waits on the store and leaves
\* the buckets, the polls and the votes as they are.
MalformedVoteChangesNothing ==
    [][/\ \A pr \in Procs :
              (procs'[pr] # Idle /\ procs'[pr].entry \in VoteEntries)
                  => ValidVoteInput(procs'[pr].pollId, procs'[pr].optionIndex)
       /\ ( /\ procs' = procs
            /\ lastResult' # lastResult
            /\ lastResult'.entry \in VoteEntries
            /\ ~ValidVoteInput(lastResult'.pollId, lastResult'.optionIndex) )
              => /\ lastResult'.error # NULL
                 /\ UNCHANGED <<rateLimitMap, polls, votes>>]_vars

\* C29, its case: after a vote of u1 on p1 was inserted under one slot of
\* the bucket, a submitVote with a malformed poll id or option index was
\* answered with the validation error, row and bucket still in place.
MalformedVoteWasRefused ==
    /\ lastResult.entry = "submitVote"
    /\ ~ValidVoteInput(lastResult.pollId, lastResult.optionIndex)
    /\ lastResult.error \in ValidationError
    /\ VoteCount(votes, "p1", "u1") = 1
    /\ rateLimitMap[RateLimitKey("u1", "p1")].count = 1

(***************************************************************************)
(* The percentages of a tally.                                             *)
(***************************************************************************)
RECURSIVE SumPercentages(_, _)
\* The sum of the percentages of the first k options of a result.
SumPercentages(options, k) ==
    IF k = 0 THEN 0 ELSE SumPercentages(options, k - 1) + options[k].percentage

\* C30: in a tally over n options with totalVotes > 0, every percentage is
\* an integer in 0..100, and the sum of the percentages differs from 100 by
\* at most n / 2.
PercentagesSumNearHundred ==
    (tallyOut # <<>> /\ tallyOut[1].totalVotes > 0) =>
        LET n == Len(tallyIn.options)
            result == tallyOut[1]
            sum == SumPercentages(result.options, n)
        IN /\ \A i \in 1..n : result.options[i].percentage \in 0..100
           /\ 2 * (sum - 100) <= n
           /\ 2 * (100 - sum) <= n

\* C30, its case: a tally over two options whose shares both end in .5 and
\* are both rounded up, so that the percentages sum to 101.
PercentagesSumAboveHundred ==
    /\ tallyOut # <<>>
    /\ Len(tallyIn.options) = 2
    /\ tallyOut[1].totalVotes = 8
    /\ tallyOut[1].options[1].percentage = 13
    /\ tallyOut[1].options[2].percentage = 88

====
